---- MODULE Spec2Model ----
(***************************************************************************)
(* Organic traffic generator (src/organic_traffic_gen.py): the concurrency *)
(* controller OrganicTrafficGenerator.run, the session tasks it spawns     *)
(* (spawn_user / UserSession.run / UserSession.make_request) and the       *)
(* summary (print_summary).                                                *)
(*                                                                         *)
(* asyncio runs one task at a time and switches only at an await, so every *)
(* action below is the code between two consecutive awaits of one task.    *)
(* Time is discrete: one unit is one controller tick (asyncio.sleep(1));   *)
(* the profile ranges and the request timeout are scaled down to a few     *)
(* units.  A timer that is due fires before the clock advances.            *)
(***************************************************************************)
EXTENDS Integers, Sequences, FiniteSets, TLC

\* ---------------------------------------------------------------- bounds
MaxUsers == 2
MaxDuration == 2
MaxSessionDuration == 3
MaxPages == 2
MaxThink == 1
RequestTimeout == 1

\* the end-to-end scenario, scaled down: users and ticks
ScenarioUsers == 2
ScenarioTicks == 2

\* the gradual ramp, scaled down: stages, ticks per stage, users a stage
\* adds to the one before
RampLen == 2
RampTicks == 1
RampStep == 1

\* the organic stress server: requests accepted, 64 MB chunks a request may
\* ask for, megabytes a request may ask to have streamed
MaxRequests == 2
MaxChunks == 2
MaxStreamMb == 1

\* app.py: megabytes a /stress request may ask to have streamed, and the
\* chunk sizes it may ask for, in steps of the default chunk size
MaxNetworkMb == 1
MaxChunkSteps == 3

\* the runs with an empty profile distribution: users and ticks
EmptyDistUsers == 3
EmptyDistTicks == 3

\* bounds of the completed lists handed to print_summary on their own:
\* entries per list, requests per entry, response time per entry
MaxAggLen == 2
MaxStat == 2
MaxResponse == 1

\* ------------------------------------------------------ program constants
TickInterval == 1
Kibi == 1024
ChunkMb == 64
MediaChunkKb == 256
DefaultChunkKb == 256
NoTime == 0 - 1

OkStatus == "200"
ErrorStatuses == {"500"}
Statuses == {OkStatus} \cup ErrorStatuses
ServerIds == {"web1"}
Unknown == "unknown"

\* an endpoint: the segments of its path and its query value; "{}" is the
\* placeholder of a template
NoQuery == "-"
Hole == "{}"
Home == [path |-> << >>, q |-> NoQuery]                     \* "/"
ProductTemplate == [path |-> <<"product", Hole>>, q |-> NoQuery]  \* "/product/{}"
ApiData == [path |-> <<"api", "data">>, q |-> NoQuery]      \* "/api/data"
SearchTemplate == [path |-> <<"search">>, q |-> Hole]       \* "/search?q={}"
Dashboard == [path |-> <<"dashboard">>, q |-> NoQuery]      \* "/dashboard"
Checkout == [path |-> <<"checkout">>, q |-> NoQuery]        \* "/checkout"

\* PROFILES, scaled: (min, max) ranges as in UserProfile; quick has one
\* endpoint, browse has every template the profiles of the code use
PROFILES ==
  [ quick  |-> [ session_duration  |-> <<1, 1>>,
                 pages_per_session |-> <<1, 1>>,
                 think_time        |-> <<0, 0>>,
                 endpoints         |-> {Home} ],
    browse |-> [ session_duration  |-> <<2, MaxSessionDuration>>,
                 pages_per_session |-> <<2, MaxPages>>,
                 think_time        |-> <<0, MaxThink>>,
                 endpoints         |-> {Home, ProductTemplate, ApiData,
                                        SearchTemplate, Dashboard, Checkout} ] ]

PROFILE_DISTRIBUTION == {"quick", "browse"}

Range(p) == p[1] .. p[2]

\* headers: a function from header names to values
NoHeaders == [h \in {} |-> ""]

\* one session against the organic stress server, operation by operation
NoEndpoint == [path |-> <<"-">>, q |-> NoQuery]
NoResponse == [status |-> "-", headers |-> NoHeaders, body |-> ""]
IdleHttp ==
  [ stage |-> "idle", profile |-> "quick", session_duration |-> 0,
    total_pages |-> 0, endpoint |-> NoEndpoint, response |-> NoResponse,
    server_id |-> "-", think_time |-> 0 ]

\* request_counter of the organic stress server as the module creates it
ZeroCounter == [total |-> 0, by_endpoint |-> [e \in {} |-> 0]]

\* the /stress request of app.py before it arrives
IdleStress ==
  [ pc |-> "idle", cpu |-> FALSE, memory |-> FALSE, network |-> FALSE,
    network_mb |-> 0, network_chunk_kb |-> 1, total_bytes |-> 0,
    chunk_bytes |-> 0, emitted |-> 0, cpu_future |-> "none",
    memory_future |-> "none", stats |-> {}, out |-> << >> ]

VARIABLES
  now,                \* time.time()
  concurrent_users,   \* OrganicTrafficGenerator.concurrent_users
  duration,           \* OrganicTrafficGenerator.duration
  start_time,         \* OrganicTrafficGenerator.start_time
  session_id,         \* local of run(): next id to hand out
  active_sessions,    \* list of tasks (each task named by its session id)
  completed_sessions, \* list of stats dicts
  cpc,                \* position of the controller coroutine run()
  cwake,              \* due time of the controller's asyncio.sleep(1)
  tasks,              \* session id -> state of the task spawn_user(id)
  result,             \* what make_request returned in the step just taken (run's
                      \* local, never read; NoResult after any other step)
  summary,            \* the summaries print_summary has printed
  logged,             \* the sessions whose exception has been reported
  profiles,           \* the module's PROFILES table
  profile_distribution, \* the module's PROFILE_DISTRIBUTION
  http,               \* one session's exchange with the organic stress server
  stage,              \* scenario_gradual_ramp: position in stages (0: no ramp)
  request_counter,    \* organic stress server: the module's request_counter
  handlers,           \* organic stress server: the requests accepted so far
  stress              \* app.py: one request to /stress

vars == << now, concurrent_users, duration, start_time, session_id,
           active_sessions, completed_sessions, cpc, cwake, tasks, result,
           summary,
                  logged, profiles, profile_distribution, http,
                  stage, request_counter, handlers, stress >>

\* ---------------------------------------------------------- UserSession
ZeroStats ==
  [ requests |-> 0, success |-> 0, errors |-> 0,
    total_response_time |-> 0, servers_hit |-> {} ]

\* a task created by asyncio.create_task that has not run yet
NewTask ==
  [ pc |-> "created", profile |-> "quick", requests_made |-> 0,
    start_time |-> NoTime, session_duration |-> 0, total_pages |-> 0,
    stats |-> ZeroStats, timer |-> NoTime ]

\* a finished task: its UserSession is garbage; the stats dict lives on in
\* completed_sessions when spawn_user got to append it
Finished(how) == [ NewTask EXCEPT !.pc = how ]

\* variant of should_continue: the page test off by one
ShouldContinueLe(u, t) ==
  (t - u.start_time) < u.session_duration /\ u.requests_made <= u.total_pages

\* UserSession.should_continue
ShouldContinue(u, t) ==
  (t - u.start_time) < u.session_duration /\ u.requests_made < u.total_pages

\* variant of the success branch: the server is not recorded
RecordSuccessNoServer(st, elapsed, server_id) ==
  [ st EXCEPT !.requests = @ + 1,
              !.success = @ + 1,
              !.total_response_time = @ + elapsed ]

\* make_request, success branch (lines 156-164)
RecordSuccess(st, elapsed, server_id) ==
  [ st EXCEPT !.requests = @ + 1,
              !.success = @ + 1,
              !.total_response_time = @ + elapsed,
              !.servers_hit = @ \cup {server_id} ]

\* variant of the except branch: the error is not counted
RecordErrorNoCount(st) ==
  [ st EXCEPT !.requests = @ + 1 ]

\* variant of the except branch: the request is not counted
RecordErrorNoRequest(st) ==
  [ st EXCEPT !.errors = @ + 1 ]

\* make_request, except branch (lines 171-173)
RecordError(st) ==
  [ st EXCEPT !.requests = @ + 1, !.errors = @ + 1 ]

Done(t) == tasks[t].pc \in {"done", "faulted"}

\* the loop head of UserSession.run, reached with session state u: either
\* the next request is issued (suspends in session.get) or run returns and
\* spawn_user appends the stats (leaving the ClientSession block is taken
\* as part of the same step)
LoopHead(t, u) ==
  IF ShouldContinue(u, now)
  THEN /\ tasks' = [tasks EXCEPT ![t] = [u EXCEPT !.pc = "request", !.timer = now]]
       /\ UNCHANGED completed_sessions
  ELSE /\ tasks' = [tasks EXCEPT ![t] = Finished("done")]
       /\ completed_sessions' = Append(completed_sessions, u.stats)

\* variant of the return after the last request: the stats are not handed over
AfterRequestDrops(t, u0) ==
  LET u == [u0 EXCEPT !.requests_made = @ + 1] IN
  IF ShouldContinue(u, now)
  THEN \E think \in Range(PROFILES[u.profile].think_time) :
         /\ tasks' = [tasks EXCEPT ![t] = [u EXCEPT !.pc = "think", !.timer = now + think]]
         /\ UNCHANGED completed_sessions
  ELSE /\ tasks' = [tasks EXCEPT ![t] = Finished("done")]
       /\ UNCHANGED completed_sessions

\* variant of the step after a request: the session sleeps whether or not
\* it goes on
AfterRequestAlwaysThinks(t, u0) ==
  LET u == [u0 EXCEPT !.requests_made = @ + 1] IN
  \E think \in Range(PROFILES[u.profile].think_time) :
    /\ tasks' = [tasks EXCEPT ![t] = [u EXCEPT !.pc = "think", !.timer = now + think]]
    /\ UNCHANGED completed_sessions

\* variant of the step after a request: stats is one dict shared by all
\* sessions (a class attribute), so every entry of completed_sessions
\* shows what the running session has just recorded
AfterRequestSharedStats(t, u0) ==
  LET u == [u0 EXCEPT !.requests_made = @ + 1]
      shared == [i \in 1..Len(completed_sessions) |-> u.stats]
  IN IF ShouldContinue(u, now)
     THEN \E think \in Range(PROFILES[u.profile].think_time) :
            /\ tasks' = [tasks EXCEPT ![t] = [u EXCEPT !.pc = "think", !.timer = now + think]]
            /\ completed_sessions' = shared
     ELSE /\ tasks' = [tasks EXCEPT ![t] = Finished("done")]
          /\ completed_sessions' = Append(shared, u.stats)

\* run lines 187-192 after make_request returned with session state u
AfterRequest(t, u0) ==
  LET u == [u0 EXCEPT !.requests_made = @ + 1] IN
  IF ShouldContinue(u, now)
  THEN \E think \in Range(PROFILES[u.profile].think_time) :
         /\ tasks' = [tasks EXCEPT ![t] = [u EXCEPT !.pc = "think", !.timer = now + think]]
         /\ UNCHANGED completed_sessions
  ELSE /\ tasks' = [tasks EXCEPT ![t] = Finished("done")]
       /\ completed_sessions' = Append(completed_sessions, u.stats)

CtlUnchanged ==
  UNCHANGED << now, concurrent_users, duration, start_time, session_id,
               active_sessions, cpc, cwake, summary,
                  logged, profiles, profile_distribution, http,
                  stage, request_counter, handlers, stress >>

NoResult == [session_id |-> NoTime, status |-> "none"]

\* first run of the task: select_profile, UserSession.__init__, run up to
\* the first await
TaskStart(t) ==
  /\ tasks[t].pc = "created"
  /\ \E name \in PROFILE_DISTRIBUTION :
       \E sd \in Range(PROFILES[name].session_duration) :
         \E tp \in Range(PROFILES[name].pages_per_session) :
           LoopHead(t, [tasks[t] EXCEPT !.profile = name,
                                        !.start_time = now,
                                        !.session_duration = sd,
                                        !.total_pages = tp])
  /\ result' = NoResult
  /\ CtlUnchanged

\* session.get returned a response (any status) within the timeout
RequestOk(t) ==
  /\ tasks[t].pc = "request"
  /\ now - tasks[t].timer < RequestTimeout
  /\ \E status \in Statuses :
       \E server_id \in ServerIds \cup {Unknown} :
         /\ AfterRequest(t, [tasks[t] EXCEPT
              !.stats = RecordSuccess(@, now - tasks[t].timer, server_id)])
         /\ result' = [session_id |-> t, status |-> status]
  /\ CtlUnchanged

\* variant of a failed request: the exception escapes and ends the session
RequestFailAborts(t) ==
  /\ tasks[t].pc = "request"
  /\ tasks' = [tasks EXCEPT ![t] = Finished("faulted")]
  /\ UNCHANGED completed_sessions
  /\ result' = [session_id |-> t, status |-> "error"]
  /\ CtlUnchanged

\* session.get raised: connection error (any time) or timeout
RequestFail(t) ==
  /\ tasks[t].pc = "request"
  /\ AfterRequest(t, [tasks[t] EXCEPT !.stats = RecordError(@)])
  /\ result' = [session_id |-> t, status |-> "error"]
  /\ CtlUnchanged

\* asyncio.sleep(think_time) is over: back to the loop head
ThinkWake(t) ==
  /\ tasks[t].pc = "think"
  /\ now >= tasks[t].timer
  /\ LoopHead(t, tasks[t])
  /\ result' = NoResult
  /\ CtlUnchanged

\* variant of a fault: the stats are appended all the same (try/finally)
TaskFaultAppends(t) ==
  /\ \/ tasks[t].pc = "created"
     \/ tasks[t].pc = "think" /\ now >= tasks[t].timer
  /\ tasks' = [tasks EXCEPT ![t] = Finished("faulted")]
  /\ completed_sessions' = Append(completed_sessions, tasks[t].stats)
  /\ result' = NoResult
  /\ CtlUnchanged

\* an exception escapes user.run() on the task's first run (select_profile,
\* UserSession, ClientSession) or when it resumes from its sleep
\* (get_next_endpoint): spawn_user ends without appending
TaskFault(t) ==
  /\ \/ tasks[t].pc = "created"
     \/ tasks[t].pc = "think" /\ now >= tasks[t].timer
  /\ tasks' = [tasks EXCEPT ![t] = Finished("faulted")]
  /\ UNCHANGED completed_sessions
  /\ result' = NoResult
  /\ CtlUnchanged

\* ------------------------------------------- OrganicTrafficGenerator.run
\* variant of the loop test: one iteration more
LoopConditionLe == now - start_time <= duration

LoopCondition == now - start_time < duration

NotDone(s) == ~Done(s)

\* variant of the reap: nothing is removed
ReapKeepsAll(active) == active

\* variant of the reap: the last task of the list is never looked at
ReapLeavesLast(active) ==
  IF active = << >> THEN active
  ELSE SelectSeq(SubSeq(active, 1, Len(active) - 1), NotDone)
         \o << active[Len(active)] >>

\* line 238
Reap(active) == SelectSeq(active, NotDone)

\* variant of the top-up: <= in place of <
TopUpOneMore(len) ==
  IF len <= concurrent_users THEN concurrent_users + 1 - len ELSE 0

\* lines 241-244: how many sessions the inner while spawns
TopUp(len) ==
  IF len < concurrent_users THEN concurrent_users - len ELSE 0

RunStart ==
  /\ cpc = "init"
  /\ start_time' = now
  /\ session_id' = 0
  /\ cpc' = "loop"
  /\ UNCHANGED << now, concurrent_users, duration, active_sessions,
                  completed_sessions, cwake, tasks, summary,
                  logged, profiles, profile_distribution, http,
                  stage, request_counter, handlers, stress >>
  /\ result' = NoResult

\* the controller is at the while condition: at the start of run, or resumed
\* from sleep(1) (it resumes and evaluates the condition without suspending)
AtLoopHead == cpc = "loop" \/ (cpc = "sleep" /\ now >= cwake)

\* the tasks the reap drops with an exception nobody retrieved: asyncio
\* reports each when the dropped task is destroyed ("Task exception was
\* never retrieved")
Unretrieved(active) ==
  { active[i] : i \in { j \in 1..Len(active) : tasks[active[j]].pc = "faulted" } }

\* variant of the loop body: a replacement takes over the id of the finished
\* session whose place it fills
ControlTickReusesIds ==
  /\ AtLoopHead
  /\ LoopCondition
  /\ LET reaped == Reap(active_sessions)
         gone == SelectSeq(active_sessions, Done)
         n == TopUp(Len(reaped))
         k == IF n < Len(gone) THEN n ELSE Len(gone)
         ids == SubSeq(gone, 1, k) \o [i \in 1..(n - k) |-> session_id + i - 1]
     IN /\ active_sessions' = reaped \o ids
        /\ tasks' = [t \in 0..(session_id + n - k - 1) |->
                       IF \E i \in 1..n : ids[i] = t THEN NewTask ELSE tasks[t]]
        /\ session_id' = session_id + n - k
  /\ cpc' = "sleep"
  /\ cwake' = now + TickInterval
  /\ UNCHANGED << now, concurrent_users, duration, start_time,
                  completed_sessions, summary >>
  /\ logged' = logged \cup Unretrieved(active_sessions)
  /\ UNCHANGED << profiles, profile_distribution, http, stage,
                  request_counter, handlers, stress >>
  /\ result' = NoResult

\* one iteration of the while loop, up to the await of sleep(1)
ControlTick ==
  /\ AtLoopHead
  /\ LoopCondition
  /\ LET reaped == Reap(active_sessions)
         n == TopUp(Len(reaped))
     IN /\ active_sessions' = reaped \o [i \in 1..n |-> session_id + i - 1]
        /\ tasks' = [t \in 0..(session_id + n - 1) |->
                       IF t < session_id THEN tasks[t] ELSE NewTask]
        /\ session_id' = session_id + n
  /\ cpc' = "sleep"
  /\ cwake' = now + TickInterval
  /\ UNCHANGED << now, concurrent_users, duration, start_time,
                  completed_sessions, summary >>
  /\ logged' = logged \cup Unretrieved(active_sessions)
  /\ UNCHANGED << profiles, profile_distribution, http, stage,
                  request_counter, handlers, stress >>
  /\ result' = NoResult

\* variant of the loop exit: one more reap and top-up before the drain
EnterDrainTopsUp ==
  /\ AtLoopHead
  /\ ~LoopCondition
  /\ LET reaped == Reap(active_sessions)
         n == TopUp(Len(reaped))
     IN /\ active_sessions' = reaped \o [i \in 1..n |-> session_id + i - 1]
        /\ tasks' = [t \in 0..(session_id + n - 1) |->
                       IF t < session_id THEN tasks[t] ELSE NewTask]
        /\ session_id' = session_id + n
  /\ cpc' = "gather"
  /\ UNCHANGED << now, concurrent_users, duration, start_time,
                  completed_sessions, cwake, summary,
                  logged, profiles, profile_distribution, http,
                  stage, request_counter, handlers, stress >>
  /\ result' = NoResult

\* the loop condition is false: line 249, then the await of gather
EnterDrain ==
  /\ AtLoopHead
  /\ ~LoopCondition
  /\ cpc' = "gather"
  /\ UNCHANGED << now, concurrent_users, duration, start_time, session_id,
                  active_sessions, completed_sessions, cwake, tasks, summary,
                  logged, profiles, profile_distribution, http,
                  stage, request_counter, handlers, stress >>
  /\ result' = NoResult

\* variant of the drain: the summary does not wait for the tasks
GatherNoWait ==
  /\ cpc = "gather"
  /\ cpc' = "summary"
  /\ UNCHANGED << now, concurrent_users, duration, start_time, session_id,
                  active_sessions, completed_sessions, cwake, tasks, summary,
                  logged, profiles, profile_distribution, http,
                  stage, request_counter, handlers, stress >>
  /\ result' = NoResult

\* gather(*active_sessions, return_exceptions=True) returns
Gather ==
  /\ cpc = "gather"
  /\ \A i \in 1..Len(active_sessions) : Done(active_sessions[i])
  /\ cpc' = "summary"
  /\ UNCHANGED << now, concurrent_users, duration, start_time, session_id,
                  active_sessions, completed_sessions, cwake, tasks, summary,
                  logged, profiles, profile_distribution, http,
                  stage, request_counter, handlers, stress >>
  /\ result' = NoResult

\* ------------------------------------------------------- print_summary
RECURSIVE SumOf(_, _)
SumOf(seq, field) ==
  IF seq = << >> THEN 0 ELSE Head(seq)[field] + SumOf(Tail(seq), field)

\* variant of the union: all_servers is assigned, not updated
AllServersLast(seq) ==
  IF seq = << >> THEN {} ELSE seq[Len(seq)].servers_hit

AllServers(seq) == UNION { seq[i].servers_hit : i \in 1..Len(seq) }

\* line 265: a quotient, kept as numerator and denominator
AvgResponseTime(total_response_time, total_requests) ==
  IF total_requests > 0
  THEN [num |-> total_response_time, den |-> total_requests]
  ELSE [num |-> 0, den |-> 1]

\* variant of the summary: every request is reported as a success
SummarizeAllSuccess(seq) ==
  [ total_sessions      |-> Len(seq),
    total_requests      |-> SumOf(seq, "requests"),
    total_success       |-> SumOf(seq, "requests"),
    total_errors        |-> SumOf(seq, "errors"),
    total_response_time |-> SumOf(seq, "total_response_time"),
    all_servers         |-> AllServers(seq),
    avg_response_time   |-> AvgResponseTime(SumOf(seq, "total_response_time"),
                                            SumOf(seq, "requests")) ]

Summarize(seq) ==
  [ total_sessions      |-> Len(seq),
    total_requests      |-> SumOf(seq, "requests"),
    total_success       |-> SumOf(seq, "success"),
    total_errors        |-> SumOf(seq, "errors"),
    total_response_time |-> SumOf(seq, "total_response_time"),
    all_servers         |-> AllServers(seq),
    avg_response_time   |-> AvgResponseTime(SumOf(seq, "total_response_time"),
                                            SumOf(seq, "requests")) ]

\* lines 256-277; line 272 divides by total_requests
PrintSummary ==
  /\ cpc = "summary"
  /\ LET s == Summarize(completed_sessions) IN
       IF s.total_requests > 0
       THEN /\ summary' = Append(summary, s)
            /\ cpc' = "done"
       ELSE /\ summary' = summary
            /\ cpc' = "crashed"
  /\ UNCHANGED << now, concurrent_users, duration, start_time, session_id,
                  active_sessions, completed_sessions, cwake, tasks,
                  logged, profiles, profile_distribution, http,
                  stage, request_counter, handlers, stress >>
  /\ result' = NoResult

\* ----------------------------------------------------------------- time
Unfinished == { t \in DOMAIN tasks : ~Done(t) }

\* variant of the clock: a request in flight is never timed out
AdvanceTimeNoTimeout ==
  /\ \/ cpc = "sleep" /\ now < cwake
     \/ cpc = "gather" /\ Unfinished # {}
  /\ \A t \in DOMAIN tasks :
       /\ tasks[t].pc # "created"
       /\ tasks[t].pc = "think" => now < tasks[t].timer
  /\ now' = now + 1
  /\ UNCHANGED << concurrent_users, duration, start_time, session_id,
                  active_sessions, completed_sessions, cpc, cwake, tasks, summary,
                  logged, profiles, profile_distribution, http,
                  stage, request_counter, handlers, stress >>
  /\ result' = NoResult

AdvanceTime ==
  /\ \/ cpc = "sleep" /\ now < cwake
     \/ cpc = "gather" /\ Unfinished # {}
  /\ \A t \in DOMAIN tasks :
       /\ tasks[t].pc # "created"
       /\ tasks[t].pc = "think" => now < tasks[t].timer
       /\ tasks[t].pc = "request" => now - tasks[t].timer < RequestTimeout
  /\ now' = now + 1
  /\ UNCHANGED << concurrent_users, duration, start_time, session_id,
                  active_sessions, completed_sessions, cpc, cwake, tasks, summary,
                  logged, profiles, profile_distribution, http,
                  stage, request_counter, handlers, stress >>
  /\ result' = NoResult

\* ------------------------------------------------------------ the system
Init ==
  /\ now = 0
  /\ concurrent_users \in 0..MaxUsers
  /\ duration \in 0..MaxDuration
  /\ start_time = NoTime
  /\ session_id = 0
  /\ active_sessions = << >>
  /\ completed_sessions = << >>
  /\ cpc = "init"
  /\ cwake = 0
  /\ tasks = [t \in {} |-> NewTask]
  /\ result = NoResult
  /\ summary = << >>
  /\ logged = {}
  /\ profiles = PROFILES
  /\ profile_distribution = PROFILE_DISTRIBUTION
  /\ http = IdleHttp
  /\ stage = 0
  /\ request_counter = ZeroCounter
  /\ handlers = << >>
  /\ stress = IdleStress

Next ==
  \/ RunStart
  \/ ControlTick
  \/ EnterDrain
  \/ Gather
  \/ PrintSummary
  \/ AdvanceTime
  \/ \E t \in DOMAIN tasks : TaskStart(t)
  \/ \E t \in DOMAIN tasks : RequestOk(t)
  \/ \E t \in DOMAIN tasks : RequestFail(t)
  \/ \E t \in DOMAIN tasks : ThinkWake(t)
  \/ \E t \in DOMAIN tasks : TaskFault(t)

Spec == Init /\ [][Next]_vars

\* runs of one user: one session at a time, and its controller
SessionInit == Init /\ concurrent_users = 1 /\ duration \in {1, 2}

SessionSpec == SessionInit /\ [][Next]_vars

\* the event loop keeps running ready tasks and time keeps advancing
FairSpec == Spec /\ WF_vars(Next)

\* the end-to-end scenario: ScenarioUsers users for ScenarioTicks ticks, the
\* quick profile alone in the distribution (one page, no think time), no
\* fault, and every request answered or failed before the clock moves on
ScenarioInit ==
  /\ now = 0
  /\ concurrent_users = ScenarioUsers
  /\ duration = ScenarioTicks
  /\ start_time = NoTime
  /\ session_id = 0
  /\ active_sessions = << >>
  /\ completed_sessions = << >>
  /\ cpc = "init"
  /\ cwake = 0
  /\ tasks = [t \in {} |-> NewTask]
  /\ result = NoResult
  /\ summary = << >>
  /\ logged = {}
  /\ profiles = PROFILES
  /\ profile_distribution = PROFILE_DISTRIBUTION
  /\ http = IdleHttp
  /\ stage = 0
  /\ request_counter = ZeroCounter
  /\ handlers = << >>
  /\ stress = IdleStress

ScenarioTaskStart(t) == TaskStart(t) /\ tasks'[t].profile = "quick"

ScenarioAdvanceTime ==
  AdvanceTime /\ \A t \in DOMAIN tasks : tasks[t].pc # "request"

ScenarioNext ==
  \/ RunStart
  \/ ControlTick
  \/ EnterDrain
  \/ Gather
  \/ PrintSummary
  \/ ScenarioAdvanceTime
  \/ \E t \in DOMAIN tasks : ScenarioTaskStart(t)
  \/ \E t \in DOMAIN tasks : RequestOk(t)
  \/ \E t \in DOMAIN tasks : RequestFail(t)

ScenarioSpec == ScenarioInit /\ [][ScenarioNext]_vars

\* scenario_gradual_ramp: the stages list, (duration, users) per stage
stages ==
  [k \in 1..RampLen |-> [duration |-> RampTicks, users |-> k * RampStep]]

\* variant of the for loop: one generator, made before the loop, runs every
\* stage, so the completed list is carried from stage to stage
NextStageKeepsGenerator ==
  /\ stage \in 1..(Len(stages) - 1)
  /\ cpc = "done"
  /\ stage' = stage + 1
  /\ concurrent_users' = stages[stage + 1].users
  /\ duration' = stages[stage + 1].duration
  /\ start_time' = NoTime
  /\ active_sessions' = << >>
  /\ completed_sessions' = completed_sessions
  /\ session_id' = 0
  /\ tasks' = [t \in {} |-> NewTask]
  /\ cpc' = "init"
  /\ result' = NoResult
  /\ UNCHANGED << now, cwake, summary, logged, profiles, profile_distribution,
                  http, request_counter, handlers, stress >>

\* the for loop of scenario_gradual_ramp: await generator.run() has
\* returned, the next stage's generator is constructed (__init__: empty
\* lists, no start time) and its run is about to be awaited; the tasks of
\* the run that returned are gone with it
NextStage ==
  /\ stage \in 1..(Len(stages) - 1)
  /\ cpc = "done"
  /\ stage' = stage + 1
  /\ concurrent_users' = stages[stage + 1].users
  /\ duration' = stages[stage + 1].duration
  /\ start_time' = NoTime
  /\ active_sessions' = << >>
  /\ completed_sessions' = << >>
  /\ session_id' = 0
  /\ tasks' = [t \in {} |-> NewTask]
  /\ cpc' = "init"
  /\ result' = NoResult
  /\ UNCHANGED << now, cwake, summary, logged, profiles, profile_distribution,
                  http, request_counter, handlers, stress >>

\* the first stage's generator is constructed
RampInit ==
  /\ now = 0
  /\ concurrent_users = stages[1].users
  /\ duration = stages[1].duration
  /\ start_time = NoTime
  /\ session_id = 0
  /\ active_sessions = << >>
  /\ completed_sessions = << >>
  /\ cpc = "init"
  /\ cwake = 0
  /\ tasks = [t \in {} |-> NewTask]
  /\ result = NoResult
  /\ summary = << >>
  /\ logged = {}
  /\ profiles = PROFILES
  /\ profile_distribution = PROFILE_DISTRIBUTION
  /\ http = IdleHttp
  /\ stage = 1
  /\ request_counter = ZeroCounter
  /\ handlers = << >>
  /\ stress = IdleStress

RampNext ==
  \/ Next
  \/ NextStage

RampSpec == RampInit /\ [][RampNext]_vars

\* runs with PROFILE_DISTRIBUTION emptied: random.choices of an empty list
\* raises IndexError in select_profile (line 213), on the first run of
\* every task, before a UserSession exists
SelectProfileFails(t) ==
  /\ tasks[t].pc = "created"
  /\ TaskFault(t)

EmptyDistInit ==
  /\ now = 0
  /\ concurrent_users \in 1..EmptyDistUsers
  /\ duration \in 1..EmptyDistTicks
  /\ start_time = NoTime
  /\ session_id = 0
  /\ active_sessions = << >>
  /\ completed_sessions = << >>
  /\ cpc = "init"
  /\ cwake = 0
  /\ tasks = [t \in {} |-> NewTask]
  /\ result = NoResult
  /\ summary = << >>
  /\ logged = {}
  /\ profiles = PROFILES
  /\ profile_distribution = PROFILE_DISTRIBUTION
  /\ http = IdleHttp
  /\ stage = 0
  /\ request_counter = ZeroCounter
  /\ handlers = << >>
  /\ stress = IdleStress

EmptyDistNext ==
  \/ RunStart
  \/ ControlTick
  \/ EnterDrain
  \/ Gather
  \/ PrintSummary
  \/ AdvanceTime
  \/ \E t \in DOMAIN tasks : SelectProfileFails(t)

EmptyDistSpec == EmptyDistInit /\ [][EmptyDistNext]_vars

\* the stats a session can return: success + errors = requests, response
\* time and servers only where there is a success, a server for each
StatsPool ==
  { st \in [ requests : 0..MaxStat, success : 0..MaxStat, errors : 0..MaxStat,
             total_response_time : 0..MaxResponse,
             servers_hit : SUBSET (ServerIds \cup {Unknown}) ] :
      /\ st.success + st.errors = st.requests
      /\ st.success = 0 => st.total_response_time = 0
      /\ Cardinality(st.servers_hit) <= st.success
      /\ st.success > 0 => st.servers_hit # {} }

\* the controller about to call print_summary, after a run whose sessions
\* returned any list of such stats
AggInit ==
  /\ now = 0
  /\ concurrent_users = 1
  /\ duration = 0
  /\ start_time = 0
  /\ completed_sessions \in UNION { [1..n -> StatsPool] : n \in 0..MaxAggLen }
  /\ session_id = Len(completed_sessions)
  /\ active_sessions = << >>
  /\ cpc = "summary"
  /\ cwake = 0
  /\ tasks = [t \in 0..(Len(completed_sessions) - 1) |-> Finished("done")]
  /\ result = NoResult
  /\ summary = << >>
  /\ logged = {}
  /\ profiles = PROFILES
  /\ profile_distribution = PROFILE_DISTRIBUTION
  /\ http = IdleHttp
  /\ stage = 0
  /\ request_counter = ZeroCounter
  /\ handlers = << >>
  /\ stress = IdleStress

AggNext == PrintSummary

AggSpec == AggInit /\ [][AggNext]_vars

\* ------------------------------------------- endpoints and the server
\* the values random.randint(1, 1000) and random.choice(queries) are
\* drawn from, sampled
Items == {"item1", "item1000"}
Queries == {"laptop", "camera"}

\* "{}" in endpoint
HasHole(e) == e.q = Hole \/ \E i \in 1..Len(e.path) : e.path[i] = Hole

\* word in endpoint, for the words the code looks for
Mentions(e, word) == \E i \in 1..Len(e.path) : e.path[i] = word

\* endpoint.format(v)
Format(e, v) ==
  [ path |-> [i \in 1..Len(e.path) |-> IF e.path[i] = Hole THEN v ELSE e.path[i]],
    q    |-> IF e.q = Hole THEN v ELSE e.q ]

\* get_next_endpoint once random.choices has picked the template, with the
\* item and the query the random calls would return
FillPlaceholders(template, item, query) ==
  IF HasHole(template)
  THEN IF Mentions(template, "product") THEN Format(template, item)
       ELSE IF Mentions(template, "search") THEN Format(template, query)
       ELSE template
  ELSE template

\* the routes of organic_web_stress.py in the order they are registered;
\* Param is a path parameter; returns says what the handler returns: a
\* Response object of its own ("response") or plain data ("data")
Param == "{param}"
Routes ==
  << [method |-> "GET",  path |-> << >>,                  name |-> "homepage",        returns |-> "response"],
     [method |-> "GET",  path |-> <<"api", "data">>,      name |-> "api_data",        returns |-> "response"],
     [method |-> "GET",  path |-> <<"dashboard">>,        name |-> "dashboard",       returns |-> "response"],
     [method |-> "GET",  path |-> <<"search">>,           name |-> "search",          returns |-> "response"],
     [method |-> "GET",  path |-> <<"media", Param>>,     name |-> "media",           returns |-> "response"],
     [method |-> "POST", path |-> <<"checkout">>,         name |-> "checkout",        returns |-> "response"],
     [method |-> "GET",  path |-> <<"product", Param>>,   name |-> "product",         returns |-> "response"],
     [method |-> "GET",  path |-> <<"extreme", "cpu">>,   name |-> "extreme_cpu",     returns |-> "response"],
     [method |-> "GET",  path |-> <<"extreme", "memory">>, name |-> "extreme_memory", returns |-> "response"],
     [method |-> "GET",  path |-> <<"extreme", "all">>,   name |-> "extreme_all",     returns |-> "response"],
     [method |-> "GET",  path |-> <<"extreme", "cpu-mem">>, name |-> "extreme_cpu_mem", returns |-> "response"],
     [method |-> "GET",  path |-> <<"health">>,           name |-> "health",          returns |-> "data"],
     [method |-> "GET",  path |-> <<"ready">>,            name |-> "ready",           returns |-> "data"],
     [method |-> "GET",  path |-> <<"metrics">>,          name |-> "metrics",         returns |-> "data"],
     [method |-> "GET",  path |-> <<"request-stats">>,    name |-> "request_stats",   returns |-> "data"] >>

SERVER_ID == "web1"

PathMatches(pattern, path) ==
  /\ Len(pattern) = Len(path)
  /\ \A i \in 1..Len(path) : pattern[i] = Param \/ pattern[i] = path[i]

SetHeader(headers, key, value) ==
  [h \in DOMAIN headers \cup {key} |-> IF h = key THEN value ELSE headers[h]]

\* add_tracking_headers: the four headers are set on the response passed in
AddTrackingHeaders(response, endpoint) ==
  [response EXCEPT !.headers =
     SetHeader(SetHeader(SetHeader(SetHeader(@,
       "X-Server-ID", SERVER_ID),
       "X-Response-Time-Ms", "ms"),
       "X-Request-ID", "uuid"),
       "X-Endpoint", endpoint)]

\* JSONResponse(data), StreamingResponse(...): a new response object
NewResponse(body) ==
  [status |-> "200", headers |-> SetHeader(NoHeaders, "content-type", "media type"),
   body |-> body]

\* a handler that takes response: Response: the framework passes in an
\* empty response, the handler sets the tracking headers on it and
\* returns; a Response object returned by the handler is sent as it is,
\* plain data is sent with the headers of the response passed in
RunHandler(route) ==
  LET injected == [status |-> "200", headers |-> NoHeaders, body |-> ""]
      tracked == IF route.returns = "response"
                 THEN AddTrackingHeaders(injected, route.name)
                 ELSE injected
  IN IF route.returns = "response"
     THEN NewResponse(route.name)
     ELSE [NewResponse(route.name) EXCEPT !.headers =
             [h \in DOMAIN @ \cup DOMAIN tracked.headers |->
                IF h \in DOMAIN tracked.headers THEN tracked.headers[h] ELSE @[h]]]

\* the router: the first route matching path and method handles the
\* request; a path that only routes of other methods match gets 405, a
\* path no route matches 404
Serve(method, endpoint) ==
  LET full == { i \in 1..Len(Routes) :
                  PathMatches(Routes[i].path, endpoint.path) /\ Routes[i].method = method }
      partial == { i \in 1..Len(Routes) : PathMatches(Routes[i].path, endpoint.path) }
  IN IF full # {}
     THEN RunHandler(Routes[CHOOSE i \in full : \A j \in full : i <= j])
     ELSE IF partial # {}
          THEN [status |-> "405", headers |-> SetHeader(NoHeaders, "allow", "POST"),
                body |-> "Method Not Allowed"]
          ELSE [status |-> "404", headers |-> NoHeaders, body |-> "Not Found"]

\* dict.get(key, default)
Get(d, key, default) == IF key \in DOMAIN d THEN d[key] ELSE default

\* variant of lines 97-98: the entry of the endpoint is set to 1, whatever
\* it held
CountRequestFromZero(counter, endpoint) ==
  [ total |-> counter.total + 1,
    by_endpoint |->
      [e \in DOMAIN counter.by_endpoint \cup {endpoint} |->
         IF e = endpoint THEN 1 ELSE counter.by_endpoint[e]] ]

\* add_tracking_headers, lines 97-98: the counter update, done without
\* suspending
CountRequest(counter, endpoint) ==
  [ total |-> counter.total + 1,
    by_endpoint |->
      [e \in DOMAIN counter.by_endpoint \cup {endpoint} |->
         IF e = endpoint THEN Get(counter.by_endpoint, endpoint, 0) + 1
                         ELSE counter.by_endpoint[e]] ]

\* the counter after the handler of a route has run: the handlers that
\* take response: Response call add_tracking_headers with their own name,
\* the others (health, ready, metrics, request-stats) do not
CountedBy(counter, route) ==
  IF route.returns = "response" THEN CountRequest(counter, route.name)
                                ELSE counter

\* the counter after the router has dealt with a request: only a handler
\* that runs counts it
Counted(counter, method, endpoint) ==
  LET full == { i \in 1..Len(Routes) :
                  PathMatches(Routes[i].path, endpoint.path) /\ Routes[i].method = method }
  IN IF full # {}
     THEN CountedBy(counter, Routes[CHOOSE i \in full : \A j \in full : i <= j])
     ELSE counter

\* response.headers.get(key, default)
HeadersGet(headers, key, default) ==
  IF key \in DOMAIN headers THEN headers[key] ELSE default

ExchangeFrame ==
  UNCHANGED << now, concurrent_users, duration, start_time, session_id,
               active_sessions, completed_sessions, cpc, cwake, tasks, result,
               summary, logged, stage, handlers, stress >>

\* select_profile and UserSession.__init__
NewSession ==
  /\ http.stage = "idle"
  /\ \E name \in profile_distribution :
       \E sd \in Range(profiles[name].session_duration) :
         \E tp \in Range(profiles[name].pages_per_session) :
           http' = [IdleHttp EXCEPT !.stage = "created", !.profile = name,
                                    !.session_duration = sd, !.total_pages = tp]
  /\ UNCHANGED << profiles, profile_distribution, request_counter >>
  /\ ExchangeFrame

\* variant of get_next_endpoint: the placeholder is filled in in the
\* profile's own table
SelectEndpointInPlace ==
  /\ http.stage \in {"created", "thought"}
  /\ \E template \in profiles[http.profile].endpoints :
       \E item \in Items : \E query \in Queries :
         LET e == FillPlaceholders(template, item, query) IN
         /\ http' = [http EXCEPT !.stage = "selected", !.endpoint = e,
                                 !.response = NoResponse, !.server_id = "-"]
         /\ profiles' = [profiles EXCEPT ![http.profile].endpoints =
                           (@ \ {template}) \cup {e}]
  /\ UNCHANGED << profile_distribution, request_counter >>
  /\ ExchangeFrame

\* get_next_endpoint
SelectEndpoint ==
  /\ http.stage \in {"created", "thought"}
  /\ \E template \in profiles[http.profile].endpoints :
       \E item \in Items : \E query \in Queries :
         http' = [http EXCEPT !.stage = "selected",
                              !.endpoint = FillPlaceholders(template, item, query),
                              !.response = NoResponse, !.server_id = "-"]
  /\ UNCHANGED << profiles, profile_distribution, request_counter >>
  /\ ExchangeFrame

\* session.get(url): the server answers the GET; the handler, when one
\* runs, counts the request (the counter is followed up to MaxRequests)
ServerAnswers ==
  /\ http.stage = "selected"
  /\ request_counter.total < MaxRequests
  /\ http' = [http EXCEPT !.stage = "answered",
                          !.response = Serve("GET", http.endpoint)]
  /\ request_counter' = Counted(request_counter, "GET", http.endpoint)
  /\ UNCHANGED << profiles, profile_distribution >>
  /\ ExchangeFrame

\* make_request, success branch: the server id is read from the response
ReadResponse ==
  /\ http.stage = "answered"
  /\ http' = [http EXCEPT !.stage = "received",
                          !.server_id = HeadersGet(http.response.headers,
                                                   "X-Server-ID", Unknown)]
  /\ UNCHANGED << profiles, profile_distribution, request_counter >>
  /\ ExchangeFrame

\* get_think_time
GetThinkTime ==
  /\ http.stage = "received"
  /\ \E think \in Range(profiles[http.profile].think_time) :
       http' = [http EXCEPT !.stage = "thought", !.think_time = think]
  /\ UNCHANGED << profiles, profile_distribution, request_counter >>
  /\ ExchangeFrame

\* run returns
EndSession ==
  /\ http.stage = "received"
  /\ http' = IdleHttp
  /\ UNCHANGED << profiles, profile_distribution, request_counter >>
  /\ ExchangeFrame

ExchangeInit ==
  /\ now = 0
  /\ concurrent_users = 1
  /\ duration = 1
  /\ start_time = NoTime
  /\ session_id = 0
  /\ active_sessions = << >>
  /\ completed_sessions = << >>
  /\ cpc = "init"
  /\ cwake = 0
  /\ tasks = [t \in {} |-> NewTask]
  /\ result = NoResult
  /\ summary = << >>
  /\ logged = {}
  /\ profiles = PROFILES
  /\ profile_distribution = PROFILE_DISTRIBUTION
  /\ http = IdleHttp
  /\ stage = 0
  /\ request_counter = ZeroCounter
  /\ handlers = << >>
  /\ stress = IdleStress

ExchangeNext ==
  \/ NewSession
  \/ SelectEndpoint
  \/ ServerAnswers
  \/ ReadResponse
  \/ GetThinkTime
  \/ EndSession

ExchangeSpec == ExchangeInit /\ [][ExchangeNext]_vars

\* ------------------------- the organic stress server, requests side by side
\* every handler is async def and uvicorn runs one event loop: a handler
\* body runs from its first line to its return without suspending, and the
\* generator of a streaming response runs later, chunk by chunk, giving the
\* loop back at every yield and at every asyncio.sleep(0)

\* memory_mb values a request may carry: whole chunks, and one short of one
MemoryMbs ==
  { ChunkMb * k + j : k \in 0..MaxChunks, j \in {0, ChunkMb - 1} }

Min(a, b) == IF a <= b THEN a ELSE b

NoSummary == [memory_allocated_mb |-> 0 - 1, network_sent_mb |-> 0 - 1]

\* a request the router has matched to a route and for which the loop has
\* made a task; allocated remembers how many 64 MB chunks the handler got
AcceptedRequest(route, memory_mb, stream_mb) ==
  [ route |-> route.name, returns |-> route.returns, pc |-> "accepted",
    tracked |-> FALSE, memory_mb |-> memory_mb, stream_mb |-> stream_mb,
    allocated |-> 0, chunks |-> 0, chunk_size |-> 0, total_bytes |-> 0,
    sent |-> 0, cpu_task |-> "none", summary |-> NoSummary ]

ServerFrame ==
  UNCHANGED << now, concurrent_users, duration, start_time, session_id,
               active_sessions, completed_sessions, cpc, cwake, tasks, result,
               summary, logged, profiles, profile_distribution, http, stage,
               stress >>

\* a request arrives; memory_mb and the megabytes to stream are the query
\* parameters of /extreme/all (memory_mb, network_mb) and /media (size_mb)
Accept ==
  /\ Len(handlers) < MaxRequests
  /\ \E i \in 1..Len(Routes) :
       \E memory_mb \in (IF Routes[i].name = "extreme_all" THEN MemoryMbs ELSE {0}) :
         \E stream_mb \in (IF Routes[i].name \in {"extreme_all", "media"}
                           THEN 0..MaxStreamMb ELSE {0}) :
           handlers' = Append(handlers, AcceptedRequest(Routes[i], memory_mb, stream_mb))
  /\ UNCHANGED request_counter
  /\ ServerFrame

\* the body of a handler that answers at once: the eight JSON handlers
\* that call add_tracking_headers, and the four that return plain data
HandlePlain(r) ==
  /\ handlers[r].pc = "accepted"
  /\ handlers[r].route \notin {"media", "extreme_all"}
  /\ request_counter' =
       IF handlers[r].returns = "response"
       THEN CountRequest(request_counter, handlers[r].route)
       ELSE request_counter
  /\ handlers' = [handlers EXCEPT ![r].pc = "done",
                                  ![r].tracked = (handlers[r].returns = "response")]
  /\ ServerFrame

\* the body of media: the request is counted and the stream handed over
HandleMedia(r) ==
  /\ handlers[r].pc = "accepted"
  /\ handlers[r].route = "media"
  /\ request_counter' = CountRequest(request_counter, "media")
  /\ handlers' = [handlers EXCEPT ![r].pc = "stream",
                                  ![r].tracked = TRUE,
                                  ![r].chunk_size = MediaChunkKb * Kibi,
                                  ![r].total_bytes = handlers[r].stream_mb * Kibi * Kibi]
  /\ ServerFrame

\* the body of extreme_all: memory_mb // 64 chunks are asked for, and a
\* MemoryError ends the allocation with the chunks got so far; the CPU task
\* is created, the request counted and the stream handed over
HandleExtremeAll(r) ==
  /\ handlers[r].pc = "accepted"
  /\ handlers[r].route = "extreme_all"
  /\ \E got \in 0..(handlers[r].memory_mb \div ChunkMb) :
       handlers' = [handlers EXCEPT ![r].pc = "stream",
                                    ![r].tracked = TRUE,
                                    ![r].allocated = got,
                                    ![r].chunks = got,
                                    ![r].cpu_task = "pending",
                                    ![r].chunk_size = Kibi * Kibi,
                                    ![r].total_bytes = handlers[r].stream_mb * Kibi * Kibi]
  /\ request_counter' = CountRequest(request_counter, "extreme_all")
  /\ ServerFrame

\* cpu_work_async never suspends: once the loop runs the task, the task
\* runs to its return
CpuTaskRuns(r) ==
  /\ handlers[r].cpu_task = "pending"
  /\ handlers' = [handlers EXCEPT ![r].cpu_task = "done"]
  /\ UNCHANGED request_counter
  /\ ServerFrame

\* stream_media, stream_all: one turn of the while loop
StreamChunk(r) ==
  /\ handlers[r].pc = "stream"
  /\ handlers[r].sent < handlers[r].total_bytes
  /\ handlers' = [handlers EXCEPT ![r].sent =
       @ + Min(handlers[r].chunk_size, handlers[r].total_bytes - @)]
  /\ UNCHANGED request_counter
  /\ ServerFrame

\* stream_media returns after its loop
MediaEnds(r) ==
  /\ handlers[r].pc = "stream"
  /\ handlers[r].route = "media"
  /\ handlers[r].sent >= handlers[r].total_bytes
  /\ handlers' = [handlers EXCEPT ![r].pc = "done"]
  /\ UNCHANGED request_counter
  /\ ServerFrame

\* stream_all after its loop: the CPU task is awaited, chunks.clear() runs
\* and the summary is made with len(chunks) * 64 taken after the clear
StreamSummary(r) ==
  /\ handlers[r].pc = "stream"
  /\ handlers[r].route = "extreme_all"
  /\ handlers[r].sent >= handlers[r].total_bytes
  /\ handlers[r].cpu_task = "done"
  /\ LET len_chunks == 0   \* len(chunks) at line 441, after line 434
     IN handlers' = [handlers EXCEPT
          ![r].pc = "done",
          ![r].chunks = len_chunks,
          ![r].summary = [memory_allocated_mb |-> len_chunks * ChunkMb,
                          network_sent_mb |-> handlers[r].stream_mb]]
  /\ UNCHANGED request_counter
  /\ ServerFrame

ServerInit ==
  /\ now = 0
  /\ concurrent_users = 1
  /\ duration = 1
  /\ start_time = NoTime
  /\ session_id = 0
  /\ active_sessions = << >>
  /\ completed_sessions = << >>
  /\ cpc = "init"
  /\ cwake = 0
  /\ tasks = [t \in {} |-> NewTask]
  /\ result = NoResult
  /\ summary = << >>
  /\ logged = {}
  /\ profiles = PROFILES
  /\ profile_distribution = PROFILE_DISTRIBUTION
  /\ http = IdleHttp
  /\ stage = 0
  /\ request_counter = ZeroCounter
  /\ handlers = << >>
  /\ stress = IdleStress

ServerNext ==
  \/ Accept
  \/ \E r \in DOMAIN handlers : HandlePlain(r)
  \/ \E r \in DOMAIN handlers : HandleMedia(r)
  \/ \E r \in DOMAIN handlers : HandleExtremeAll(r)
  \/ \E r \in DOMAIN handlers : CpuTaskRuns(r)
  \/ \E r \in DOMAIN handlers : StreamChunk(r)
  \/ \E r \in DOMAIN handlers : MediaEnds(r)
  \/ \E r \in DOMAIN handlers : StreamSummary(r)

ServerSpec == ServerInit /\ [][ServerNext]_vars

\* ------------------------------------------------------- app.py: /stress
Max(a, b) == IF a >= b THEN a ELSE b

\* network_work
NetworkWork(megabytes, chunk_kilobytes) ==
  LET mb == Max(megabytes, 0)
      kb == Max(chunk_kilobytes, 1)
  IN [ target_megabytes |-> mb,
       total_bytes |-> mb * Kibi * Kibi,
       chunk_bytes |-> kb * Kibi ]

\* variant of line 153: every chunk is a whole chunk
ToSendWhole(chunk_bytes, total_bytes, emitted) == chunk_bytes

\* line 153
ToSend(chunk_bytes, total_bytes, emitted) ==
  Min(chunk_bytes, total_bytes - emitted)

\* what the stream yields: a payload chunk of len bytes, or the summary
\* with the stats it carries and its newline prefix
Payload(len) ==
  [kind |-> "payload", len |-> len, prefix |-> FALSE, stats |-> {}]

SummaryOf(stats, prefix) ==
  [kind |-> "summary", len |-> 0, prefix |-> prefix, stats |-> stats]

StressFrame ==
  UNCHANGED << now, concurrent_users, duration, start_time, session_id,
               active_sessions, completed_sessions, cpc, cwake, tasks, result,
               summary, logged, profiles, profile_distribution, http, stage,
               request_counter, handlers >>

\* the Query constraints of stress (ge=0, ge=1): FastAPI answers 422 and
\* the handler does not run
Invalid ==
  /\ stress.pc = "request"
  /\ stress.network_mb < 0 \/ stress.network_chunk_kb < 1
  /\ stress' = [stress EXCEPT !.pc = "invalid"]
  /\ StressFrame

\* stress, lines 221-225: no stress type selected
Reject ==
  /\ stress.pc = "request"
  /\ stress.network_mb >= 0 /\ stress.network_chunk_kb >= 1
  /\ ~(stress.cpu \/ stress.memory \/ stress.network)
  /\ stress' = [stress EXCEPT !.pc = "rejected"]
  /\ StressFrame

\* _run_stress up to its first suspension or its return: the executor
\* jobs are started; with network the streaming response is returned with
\* the generator not yet started, without it the futures are awaited
RunStress ==
  /\ stress.pc = "request"
  /\ stress.network_mb >= 0 /\ stress.network_chunk_kb >= 1
  /\ stress.cpu \/ stress.memory \/ stress.network
  /\ LET network_stats == NetworkWork(stress.network_mb, stress.network_chunk_kb)
     IN stress' = [stress EXCEPT
          !.cpu_future = IF stress.cpu THEN "running" ELSE "none",
          !.memory_future = IF stress.memory THEN "running" ELSE "none",
          !.stats = IF stress.network THEN {"network"} ELSE {},
          !.total_bytes = IF stress.network THEN network_stats.total_bytes ELSE 0,
          !.chunk_bytes = IF stress.network THEN network_stats.chunk_bytes ELSE 0,
          !.pc = IF stress.network THEN "stream" ELSE "await_cpu"]
  /\ StressFrame

\* cpu_work returns in its executor thread
CpuWorkDone ==
  /\ stress.cpu_future = "running"
  /\ stress' = [stress EXCEPT !.cpu_future = "done"]
  /\ StressFrame

\* memory_work returns in its executor thread
MemoryWorkDone ==
  /\ stress.memory_future = "running"
  /\ stress' = [stress EXCEPT !.memory_future = "done"]
  /\ StressFrame

\* stream: one turn of the while loop, lines 152-157
StreamPayload ==
  /\ stress.pc = "stream"
  /\ stress.emitted < stress.total_bytes
  /\ LET to_send == ToSend(stress.chunk_bytes, stress.total_bytes, stress.emitted)
     IN stress' = IF to_send # 0
                  THEN [stress EXCEPT !.out = Append(@, Payload(to_send)),
                                      !.emitted = @ + to_send]
                  ELSE stress
  /\ StressFrame

\* the while condition fails
LoopEnds ==
  /\ stress.pc = "stream"
  /\ stress.emitted >= stress.total_bytes
  /\ stress' = [stress EXCEPT !.pc = "await_cpu"]
  /\ StressFrame

\* lines 159-160 and 171-172: the CPU future, if there is one, is awaited
AwaitCpu ==
  /\ stress.pc = "await_cpu"
  /\ stress.cpu_future # "running"
  /\ stress' = [stress EXCEPT
       !.stats = IF stress.cpu_future = "done" THEN @ \cup {"cpu"} ELSE @,
       !.pc = "await_memory"]
  /\ StressFrame

\* lines 161-162 and 173-174
AwaitMemory ==
  /\ stress.pc = "await_memory"
  /\ stress.memory_future # "running"
  /\ stress' = [stress EXCEPT
       !.stats = IF stress.memory_future = "done" THEN @ \cup {"memory"} ELSE @,
       !.pc = "summary"]
  /\ StressFrame

\* lines 164-167: the stream yields the summary, after a newline when
\* there was payload; line 176: without network the summary is the
\* JSON response
YieldSummary ==
  /\ stress.pc = "summary"
  /\ stress' = [stress EXCEPT
       !.out = Append(@, SummaryOf(stress.stats,
                                   stress.network /\ stress.total_bytes # 0)),
       !.pc = "done"]
  /\ StressFrame

\* the chunk sizes a request may ask for
ChunkKbs == {0} \cup { k * DefaultChunkKb : k \in 1..MaxChunkSteps }

\* a request to /stress has arrived with its query parameters
StressInit ==
  /\ now = 0
  /\ concurrent_users = 1
  /\ duration = 1
  /\ start_time = NoTime
  /\ session_id = 0
  /\ active_sessions = << >>
  /\ completed_sessions = << >>
  /\ cpc = "init"
  /\ cwake = 0
  /\ tasks = [t \in {} |-> NewTask]
  /\ result = NoResult
  /\ summary = << >>
  /\ logged = {}
  /\ profiles = PROFILES
  /\ profile_distribution = PROFILE_DISTRIBUTION
  /\ http = IdleHttp
  /\ stage = 0
  /\ request_counter = ZeroCounter
  /\ handlers = << >>
  /\ \E cpu \in BOOLEAN, memory \in BOOLEAN, network \in BOOLEAN :
       \E network_mb \in (0 - 1)..MaxNetworkMb, network_chunk_kb \in ChunkKbs :
         stress = [IdleStress EXCEPT !.pc = "request", !.cpu = cpu,
                                     !.memory = memory, !.network = network,
                                     !.network_mb = network_mb,
                                     !.network_chunk_kb = network_chunk_kb]

StressNext ==
  \/ Invalid
  \/ Reject
  \/ RunStress
  \/ CpuWorkDone
  \/ MemoryWorkDone
  \/ StreamPayload
  \/ LoopEnds
  \/ AwaitCpu
  \/ AwaitMemory
  \/ YieldSummary

StressSpec == StressInit /\ [][StressNext]_vars

\* the event loop runs what is ready and the executor jobs return
StressFairSpec == StressSpec /\ WF_vars(StressNext)

TypeOK ==
  /\ now \in Nat
  /\ cpc \in {"init", "loop", "sleep", "gather", "summary", "done", "crashed"}
  /\ cpc = "loop" => tasks = << >>
  /\ DOMAIN tasks = 0..(session_id - 1)
  /\ Len(summary) <= (IF stage = 0 THEN 1 ELSE stage)

\* ======================================================================
\* Properties
\* ======================================================================
Draining == {"gather", "summary", "done", "crashed"}

Balanced(st) == st.success + st.errors = st.requests

Last(seq) == seq[Len(seq)]

\* the session of t ends in this step by returning from run
Returns(t) ==
  /\ t \in DOMAIN tasks
  /\ tasks[t].pc \notin {"done", "faulted"}
  /\ tasks'[t].pc = "done"

\* the stats of session t after this step
StatsAfter(t) ==
  IF tasks'[t].pc = "done" THEN Last(completed_sessions') ELSE tasks'[t].stats

\* make_request of session t returned in this step
Answered(t) ==
  /\ result' # NoResult
  /\ result'.session_id = t

\* C1: the sessions spawned and not finished, and the active list, never
\* exceed concurrent_users
C1_HardCap ==
  /\ Cardinality(Unfinished) <= concurrent_users
  /\ Len(active_sessions) <= concurrent_users

C1_Witness ==
  /\ concurrent_users = 2
  /\ session_id >= 3
  /\ Cardinality(Unfinished) = 2

\* C2: a control tick before draining (reap, top-up, then sleep) leaves
\* exactly concurrent_users tasks in the active list, none of which was
\* finished when the reap ran
C2_RestoresTarget ==
  [][ (cwake' # cwake) =>
        /\ Len(active_sessions') = concurrent_users
        /\ \A i \in 1..Len(active_sessions') :
             LET s == active_sessions'[i] IN
               /\ s \in DOMAIN tasks => ~Done(s)
               /\ tasks'[s].pc \notin {"done", "faulted"} ]_vars

C2_Witness ==
  /\ cpc = "sleep"
  /\ cwake = now + TickInterval
  /\ Len(active_sessions) = 2
  /\ active_sessions[1] \in {0, 1}
  /\ active_sessions[2] = 2
  /\ tasks[2].pc = "created"

\* C3: in every state (every state is a suspension point) and in every
\* entry handed over at termination, success + errors = requests
C3_Balance ==
  /\ \A t \in DOMAIN tasks : Balanced(tasks[t].stats)
  /\ \A i \in 1..Len(completed_sessions) : Balanced(completed_sessions[i])

C3_Witness ==
  \E i \in 1..Len(completed_sessions) :
    /\ completed_sessions[i].success = 1
    /\ completed_sessions[i].errors = 1

\* C4: the requests a session has completed plus the one in flight never
\* exceed total_pages, and the stats it returns hold at most total_pages
\* requests
C4_WithinBudget ==
  \A t \in DOMAIN tasks :
    /\ tasks[t].requests_made <= tasks[t].total_pages
    /\ tasks[t].stats.requests + (IF tasks[t].pc = "request" THEN 1 ELSE 0)
         <= tasks[t].total_pages

C4_AtReturn ==
  \A t \in DOMAIN tasks :
    Returns(t) => Last(completed_sessions').requests <= tasks[t].total_pages

\* C4: a session never attempts more requests than total_pages, while it
\* runs and in the stats it returns
C4_PageBudget == [](C4_WithinBudget) /\ [][C4_AtReturn]_vars

C4_Witness ==
  \E t \in DOMAIN tasks :
    /\ tasks[t].pc = "request"
    /\ tasks[t].total_pages = 2
    /\ tasks[t].stats.requests = 1

\* C5: a request that fails with an exception adds one to errors and
\* nothing to success, uses up one page, is not issued again, does not
\* fault the session, and the session goes on as after a success: it
\* sleeps when should_continue holds and returns otherwise
C5_FailedRequest ==
  \A t \in DOMAIN tasks :
    (Answered(t) /\ result'.status = "error") =>
      LET u == [tasks[t] EXCEPT !.requests_made = @ + 1] IN
        /\ tasks[t].pc = "request"
        /\ StatsAfter(t).errors = tasks[t].stats.errors + 1
        /\ StatsAfter(t).success = tasks[t].stats.success
        /\ StatsAfter(t).requests = tasks[t].stats.requests + 1
        /\ IF ShouldContinue(u, now)
           THEN /\ tasks'[t].pc = "think"
                /\ tasks'[t].requests_made = u.requests_made
                /\ UNCHANGED completed_sessions
           ELSE /\ tasks'[t].pc = "done"
                /\ Len(completed_sessions') = Len(completed_sessions) + 1

\* C5: every failed request is counted once as an error, is not retried
\* and does not end the session other than through should_continue
C5_FailureIsolated == [][C5_FailedRequest]_vars

C5_Witness ==
  /\ result # NoResult
  /\ result.status = "error"
  /\ tasks[result.session_id].pc = "think"
  /\ tasks[result.session_id].stats.errors = 1

\* C6: a response that arrives with an error status adds one to errors
\* and nothing to success
C6_ErrorStatus ==
  \A t \in DOMAIN tasks :
    (Answered(t) /\ result'.status \in ErrorStatuses) =>
      /\ StatsAfter(t).errors = tasks[t].stats.errors + 1
      /\ StatsAfter(t).success = tasks[t].stats.success

\* C6: every response with an error status is counted as a failure
C6_ErrorStatusIsFailure == [][C6_ErrorStatus]_vars

\* C7: a session that faults changes nothing but its own task, it never
\* gets an entry in completed_sessions (the entries are those of the
\* sessions that returned), and the controller still gets through its
\* drain: it stops before the summary only with no finished task left
\* to wait for
C7_FaultStep ==
  \A t \in DOMAIN tasks :
    (tasks[t].pc # "faulted" /\ tasks'[t].pc = "faulted") =>
      /\ UNCHANGED << cpc, cwake, start_time, session_id, active_sessions,
                      completed_sessions, summary, now >>
      /\ \A o \in DOMAIN tasks \ {t} : tasks'[o] = tasks[o]

C7_Entries ==
  /\ Len(completed_sessions) =
       Cardinality({ t \in DOMAIN tasks : tasks[t].pc = "done" })
  /\ cpc \in {"summary", "done", "crashed"} => Unfinished = {}
  /\ cpc = "done" => summary = << Summarize(completed_sessions) >>

\* C7: a faulted session is isolated from the controller and from the
\* other sessions and is left out of completed_sessions and the summary
C7_FaultIsolated == [](C7_Entries) /\ [][C7_FaultStep]_vars

C7_Witness ==
  /\ cpc = "done"
  /\ \E t \in DOMAIN tasks : tasks[t].pc = "faulted"
  /\ \E t \in DOMAIN tasks : tasks[t].pc = "done"
  /\ Len(completed_sessions) < session_id

\* C8: the controller enters its drain only with elapsed >= duration; the
\* step that enters it and every step after it spawn no session, the
\* controller stays in its drain, and the set of unfinished sessions only
\* shrinks
C8_DrainStep ==
  (cpc \in Draining \/ cpc' \in Draining) =>
    /\ now - start_time >= duration
    /\ session_id' = session_id
    /\ DOMAIN tasks' = DOMAIN tasks
    /\ active_sessions' = active_sessions
    /\ Unfinished' \subseteq Unfinished
    /\ cpc' \in Draining

\* C8: once draining, no session is spawned and the unfinished set only
\* shrinks
C8_NoSpawnInDrain == [][C8_DrainStep]_vars

C8_Witness ==
  /\ cpc = "gather"
  /\ session_id >= 3
  /\ Cardinality(Unfinished) = 1
  /\ now > start_time + duration

\* C9: no step of the controller ends or changes a session task; a session
\* returns only when its own should_continue is false; and the summary
\* comes only when every session task has finished
C9_Step ==
  /\ cpc' # cpc => \A t \in DOMAIN tasks : tasks'[t] = tasks[t]
  /\ \A t \in DOMAIN tasks :
       Returns(t) =>
         \/ /\ tasks[t].pc = "request"
            /\ ~ShouldContinue([tasks[t] EXCEPT !.requests_made = @ + 1], now)
         \/ /\ tasks[t].pc = "think"
            /\ ~ShouldContinue(tasks[t], now)

C9_State ==
  (cpc \in {"summary", "done", "crashed"} \/ summary # << >>) => Unfinished = {}

\* C9: the controller never cancels a session, and the summary comes only
\* after every session task has finished
C9_NoCancel == [](C9_State) /\ [][C9_Step]_vars

C9_Witness ==
  /\ cpc = "done"
  /\ now > start_time + duration
  /\ session_id >= 3
  /\ Len(completed_sessions) = session_id

\* C10: with fair scheduling and advancing time the run ends with the
\* summary produced exactly once
C10_Terminates == <>(cpc = "done" /\ Len(summary) = 1)

FaultedTasks == { t \in DOMAIN tasks : tasks[t].pc = "faulted" }

ReturnedTasks == { t \in DOMAIN tasks : tasks[t].pc = "done" }

Elements(seq) == { seq[i] : i \in 1..Len(seq) }

\* the step is an iteration of the controller's while loop
TickStep == cwake' # cwake

\* the step is a step of the controller coroutine
ControllerStep == cpc' # cpc \/ cwake' # cwake

\* C11: once the controller is past its drain, completed_sessions holds
\* one entry for each session spawned that did not fault, and the summary
\* reports that many sessions; the list grows only by the one entry of a
\* session that returns, and every session that returns adds its entry
C11_State ==
  /\ cpc \in {"summary", "done", "crashed"} =>
       /\ Len(completed_sessions) = session_id - Cardinality(FaultedTasks)
       /\ ReturnedTasks \cup FaultedTasks = 0..(session_id - 1)
  /\ cpc = "done" =>
       summary[1].total_sessions = session_id - Cardinality(FaultedTasks)

C11_Step ==
  /\ \A t \in DOMAIN tasks :
       Returns(t) =>
         /\ Len(completed_sessions') = Len(completed_sessions) + 1
         /\ SubSeq(completed_sessions', 1, Len(completed_sessions))
              = completed_sessions
  /\ completed_sessions' # completed_sessions =>
       \E t \in DOMAIN tasks : Returns(t)

C11_NoResultLost == [](C11_State) /\ [][C11_Step]_vars

C11_Witness ==
  /\ cpc = "done"
  /\ session_id = 3
  /\ Cardinality(FaultedTasks) = 1
  /\ summary[1].total_sessions = 2
  /\ now > start_time + duration

\* C12: the ids handed out are 0, 1, 2, ... in spawning order; a step
\* never gives a fresh task an id that was already handed out, whatever
\* became of the session that had it
C12_Step ==
  /\ session_id' >= session_id
  /\ DOMAIN tasks \subseteq DOMAIN tasks'
  /\ \A t \in DOMAIN tasks :
       tasks'[t].pc = "created" => tasks[t].pc = "created"
  /\ \A t \in DOMAIN tasks' \ DOMAIN tasks :
       /\ t >= session_id
       /\ t < session_id'
       /\ tasks'[t].pc = "created"
  /\ \A i, j \in 1..Len(active_sessions') :
       i < j => active_sessions'[i] < active_sessions'[j]

C12_State ==
  /\ DOMAIN tasks = 0..(session_id - 1)
  /\ Elements(active_sessions) \subseteq DOMAIN tasks

C12_FreshIds == [](C12_State) /\ [][C12_Step]_vars

C12_Witness ==
  /\ session_id = 3
  /\ tasks[0].pc = "faulted"
  /\ tasks[1].pc = "done"
  /\ tasks[2].pc = "created"

\* C13 as stated: a step of a session task changes neither active_sessions
\* nor completed_sessions
C13_TaskStep ==
  (\E t \in DOMAIN tasks : tasks'[t] # tasks[t]) =>
    UNCHANGED << active_sessions, completed_sessions >>

C13_ControllerWritesBoth == [][C13_TaskStep]_vars

\* what the code does instead: active_sessions is written only by the
\* controller's loop iterations, completed_sessions only by the session
\* task that returns (spawn_user), in its last step
C13_Writers ==
  /\ active_sessions' # active_sessions => TickStep
  /\ ControllerStep => UNCHANGED completed_sessions
  /\ completed_sessions' # completed_sessions =>
       /\ \E t \in DOMAIN tasks : Returns(t)
       /\ ~ControllerStep
       /\ UNCHANGED active_sessions

C13_WritersOfEach == [][C13_Writers]_vars

\* C20: a loop iteration removes from active_sessions every task that was
\* finished when it ran, and the stats of every session that had returned
\* by then are in completed_sessions when it ends
C20_Reap ==
  TickStep =>
    /\ \A t \in DOMAIN tasks : Done(t) => t \notin Elements(active_sessions')
    /\ Len(completed_sessions') = Cardinality(ReturnedTasks)
    /\ Elements(active_sessions) \ Elements(active_sessions') \subseteq
         ReturnedTasks \cup FaultedTasks

C20_ReapedAtOnce == [][C20_Reap]_vars

C20_Witness ==
  /\ cpc = "sleep"
  /\ cwake = now + TickInterval
  /\ concurrent_users = 2
  /\ active_sessions = << 2, 3 >>
  /\ tasks[0].pc = "done"
  /\ tasks[1].pc = "faulted"
  /\ Len(completed_sessions) = 1

\* the longest a session of task record u may last: its session_duration,
\* one request timeout and the longest think time of its profile
LongestRun(u) ==
  u.session_duration + RequestTimeout + PROFILES[u.profile].think_time[2]

Running(t) == tasks[t].pc \in {"request", "think"}

C14_WhileRunning ==
  \A t \in DOMAIN tasks :
    Running(t) => now - tasks[t].start_time <= LongestRun(tasks[t])

C14_AtEnd ==
  \A t \in DOMAIN tasks :
    (Running(t) /\ tasks'[t].pc \in {"done", "faulted"}) =>
      now' - tasks[t].start_time <= LongestRun(tasks[t])

\* C14: from the start of a session to its end no more time passes than
\* session_duration + the request timeout + the upper end of the
\* profile's think_time range
C14_BoundedRun == [](C14_WhileRunning) /\ [][C14_AtEnd]_vars

C14_Witness ==
  \E t \in DOMAIN tasks :
    /\ tasks[t].pc = "request"
    /\ tasks[t].requests_made = 1
    /\ now - tasks[t].timer = RequestTimeout
    /\ now - tasks[t].start_time >= tasks[t].session_duration

\* C15: when the completed sessions hold no request at all, print_summary
\* completes and reports 0 requests, an average response time of 0 and no
\* backend
C15_ZeroRequests ==
  (cpc \in {"done", "crashed"} /\ SumOf(completed_sessions, "requests") = 0) =>
    /\ cpc = "done"
    /\ Len(summary) = 1
    /\ summary[1].total_requests = 0
    /\ summary[1].avg_response_time.num = 0
    /\ summary[1].all_servers = {}

\* C16: with concurrent_users or duration not positive the run is refused
\* at startup: the controller does not reach its loop, spawns nothing and
\* goes on to nothing that follows the loop
C16_Rejected ==
  (concurrent_users <= 0 \/ duration <= 0) =>
    /\ cpc \notin {"loop", "sleep", "gather", "summary", "done", "crashed"}
    /\ session_id = 0

\* the sum of a field counted entry by entry from the end of the list
RECURSIVE TotalUpTo(_, _, _)
TotalUpTo(seq, field, n) ==
  IF n = 0 THEN 0 ELSE TotalUpTo(seq, field, n - 1) + seq[n][field]

\* C17: the summary's totals are the sums of requests, success and errors
\* over completed_sessions, its servers are exactly the servers some
\* session hit, and total_success + total_errors = total_requests
C17_Totals ==
  cpc = "done" =>
    LET s == summary[1]
        n == Len(completed_sessions)
    IN /\ s.total_requests = TotalUpTo(completed_sessions, "requests", n)
       /\ s.total_success = TotalUpTo(completed_sessions, "success", n)
       /\ s.total_errors = TotalUpTo(completed_sessions, "errors", n)
       /\ \A x \in s.all_servers :
            \E i \in 1..n : x \in completed_sessions[i].servers_hit
       /\ \A i \in 1..n : completed_sessions[i].servers_hit \subseteq s.all_servers
       /\ s.total_success + s.total_errors = s.total_requests

C17_Witness ==
  /\ cpc = "done"
  /\ Len(completed_sessions) = 3
  /\ summary[1].total_errors = 2
  /\ summary[1].total_success = 2
  /\ summary[1].all_servers = ServerIds \cup {Unknown}

\* the totals and the servers of a summary
Totals(s) ==
  [ total_requests      |-> s.total_requests,
    total_success       |-> s.total_success,
    total_errors        |-> s.total_errors,
    total_response_time |-> s.total_response_time,
    all_servers         |-> s.all_servers ]

\* component-wise sum and union of two of them
Combine(a, b) ==
  [ total_requests      |-> a.total_requests + b.total_requests,
    total_success       |-> a.total_success + b.total_success,
    total_errors        |-> a.total_errors + b.total_errors,
    total_response_time |-> a.total_response_time + b.total_response_time,
    all_servers         |-> a.all_servers \cup b.all_servers ]

\* seq with its entries i and i + 1 exchanged
Exchange(seq, i) ==
  [seq EXCEPT ![i] = seq[i + 1], ![i + 1] = seq[i]]

C19_EachTick ==
  /\ TickStep => session_id' = session_id + concurrent_users
  /\ TickStep => now - start_time < duration
  /\ TickStep => session_id = concurrent_users * (now - start_time)
  /\ \A t \in DOMAIN tasks :
       Returns(t) => Last(completed_sessions').requests = 1

C19_Outcome ==
  /\ \A i \in 1..Len(completed_sessions) : completed_sessions[i].requests = 1
  /\ \A t \in DOMAIN tasks : tasks[t].stats.requests <= 1
  /\ cpc # "crashed"
  /\ cpc \in Draining => session_id = concurrent_users * duration
  /\ cpc = "done" =>
       /\ summary[1].total_sessions = concurrent_users * duration
       /\ summary[1].total_requests = summary[1].total_sessions
       /\ summary[1].total_success + summary[1].total_errors
            = summary[1].total_requests

\* C19: in the scenario every session makes exactly one request, every
\* tick spawns concurrent_users sessions, there are duration ticks, and
\* the summary counts concurrent_users * duration sessions, as many
\* requests, and successes and errors adding up to them
C19_Scenario == [](C19_Outcome) /\ [][C19_EachTick]_vars

C19_Witness ==
  /\ cpc = "done"
  /\ concurrent_users = ScenarioUsers
  /\ summary[1].total_sessions = ScenarioUsers * ScenarioTicks
  /\ summary[1].total_requests = ScenarioUsers * ScenarioTicks
  /\ summary[1].total_errors = 1

\* C21 as stated: once the controller drains, the run is never more than
\* one tick past its duration
C21_OneTickTail ==
  cpc \in Draining => now - start_time <= duration + TickInterval

\* C21 amended: a session that is still running was started before the
\* duration was over and runs no longer than its session_duration + the
\* request timeout + its longest think time, so a drain with sessions
\* still running is less than duration + that much into the run
C21_Running ==
  \A t \in DOMAIN tasks :
    Running(t) =>
      /\ tasks[t].start_time - start_time < duration
      /\ now - start_time < duration + LongestRun(tasks[t])

C21_AtEnd ==
  \A t \in DOMAIN tasks :
    (Running(t) /\ tasks'[t].pc \in {"done", "faulted"}) =>
      now' - start_time < duration + LongestRun(tasks[t])

C21_DrainTail == [](C21_Running) /\ [][C21_AtEnd]_vars

C21_Witness ==
  /\ cpc = "gather"
  /\ now - start_time > duration + TickInterval
  /\ \E t \in DOMAIN tasks : Running(t)

\* C22: the exception of every session task that faulted is reported, once
\* the controller has let go of the task: when the reap has dropped it,
\* and when the drain is over
C22_FaultsLogged ==
  \A t \in FaultedTasks :
    (t \notin Elements(active_sessions) \/ cpc \in {"summary", "done", "crashed"})
      => t \in logged

C23_Boundary ==
  \A t \in DOMAIN tasks : tasks[t].stats.requests = tasks[t].requests_made

C23_OneOutcome ==
  \A t \in DOMAIN tasks :
    /\ Answered(t) =>
         /\ tasks[t].pc = "request"
         /\ StatsAfter(t).requests = tasks[t].stats.requests + 1
         /\ StatsAfter(t).success + StatsAfter(t).errors
              = tasks[t].stats.success + tasks[t].stats.errors + 1
    /\ (tasks[t].pc = "request" /\ tasks'[t] # tasks[t]) => Answered(t)
    /\ Returns(t) =>
         Last(completed_sessions').requests
           = tasks[t].requests_made + (IF Answered(t) THEN 1 ELSE 0)

\* C23: whenever a session is suspended, and when it returns, its
\* stats.requests equals its requests_made; a request ends in exactly one
\* answer, which adds one to requests and one to success or errors
C23_OneRequestOneRecord == [](C23_Boundary) /\ [][C23_OneOutcome]_vars

C23_Witness ==
  \E t \in DOMAIN tasks :
    /\ tasks[t].pc = "request"
    /\ tasks[t].requests_made = 1
    /\ tasks[t].stats.errors = 1
    /\ tasks[t].timer > tasks[t].start_time

C24_Pause ==
  \A t \in DOMAIN tasks :
    (tasks'[t].pc = "think" /\ tasks'[t] # tasks[t]) =>
      /\ tasks[t].pc = "request"
      /\ Answered(t)
      /\ tasks'[t].requests_made = tasks[t].requests_made + 1
      /\ tasks'[t].requests_made < tasks'[t].total_pages
      /\ now' - tasks'[t].start_time < tasks'[t].session_duration
      /\ tasks'[t].timer - now' \in Range(PROFILES[tasks'[t].profile].think_time)

C24_LastPage ==
  \A t \in DOMAIN tasks :
    (Answered(t) /\ tasks[t].requests_made + 1 >= tasks[t].total_pages) =>
      tasks'[t].pc = "done"

\* C24: a session starts a think-time sleep only in the step in which a
\* request of its own is answered, and only if requests_made is then
\* below total_pages and the session_duration is not over; the request
\* that uses up the pages is followed by the return, not by a sleep
C24_ThinkBetweenRequests == [][C24_Pause /\ C24_LastPage]_vars

C24_Witness ==
  \E t \in DOMAIN tasks :
    /\ tasks[t].pc = "think"
    /\ tasks[t].timer = now + MaxThink
    /\ tasks[t].requests_made = 1
    /\ tasks[t].total_pages = MaxPages
    /\ result # NoResult
    /\ result.session_id = t

C25_Servers ==
  \A t \in DOMAIN tasks :
    /\ tasks[t].stats.servers_hit # {} <=> tasks[t].stats.success > 0
    /\ Cardinality(tasks[t].stats.servers_hit) <= tasks[t].stats.success
    /\ tasks[t].stats.servers_hit \subseteq ServerIds \cup {Unknown}

C25_Completed ==
  \A i \in 1..Len(completed_sessions) :
    /\ completed_sessions[i].servers_hit # {} <=> completed_sessions[i].success > 0
    /\ Cardinality(completed_sessions[i].servers_hit) <= completed_sessions[i].success

C25_Step ==
  \A t \in DOMAIN tasks :
    /\ (Answered(t) /\ result'.status = "error") =>
         StatsAfter(t).servers_hit = tasks[t].stats.servers_hit
    /\ (Answered(t) /\ result'.status # "error") =>
         \E x \in ServerIds \cup {Unknown} :
           StatsAfter(t).servers_hit = tasks[t].stats.servers_hit \cup {x}
    /\ (tasks'[t] # tasks[t] /\ ~Answered(t) /\ tasks[t].pc = "think"
          /\ tasks'[t].pc # "faulted") =>
         StatsAfter(t).servers_hit = tasks[t].stats.servers_hit

\* C25: servers_hit grows only in the step of a successful request, by the
\* server id of the response or by "unknown"; a failed request and every
\* other step leave it alone; so it is non-empty exactly when success > 0
\* and never has more members than success
C25_ServersFromSuccess ==
  [](C25_Servers /\ C25_Completed) /\ [][C25_Step]_vars

C25_Witness ==
  \E t \in DOMAIN tasks :
    /\ tasks[t].pc = "request"
    /\ tasks[t].stats.success = 1
    /\ tasks[t].stats.errors = 0
    /\ tasks[t].stats.servers_hit = {Unknown}

\* C26: with an empty profile distribution the controller fails at
\* startup: no session task is ever spawned and the loop is never run
C26_FatalAtStartup ==
  /\ session_id = 0
  /\ active_sessions = << >>
  /\ cpc \notin {"sleep", "gather", "summary", "done", "crashed"}

\* st is the stats session t returns with in this step
IsFinalStats(t, st) ==
  IF tasks[t].pc = "request"
  THEN IF result'.status = "error"
       THEN st = RecordError(tasks[t].stats)
       ELSE \E x \in ServerIds \cup {Unknown} :
              st = RecordSuccess(tasks[t].stats, now - tasks[t].timer, x)
  ELSE st = tasks[t].stats

C27_Frame ==
  /\ Len(completed_sessions') >= Len(completed_sessions)
  /\ \A i \in 1..Len(completed_sessions) :
       completed_sessions'[i] = completed_sessions[i]
  /\ \A t \in DOMAIN tasks :
       /\ (~Done(t) /\ tasks'[t].stats # tasks[t].stats) =>
            \/ Answered(t)
            \/ tasks'[t].pc \in {"done", "faulted"}
       /\ Done(t) => tasks'[t] = tasks[t]
       /\ Returns(t) =>
            /\ Len(completed_sessions') = Len(completed_sessions) + 1
            /\ IsFinalStats(t, Last(completed_sessions'))
            /\ \A u \in DOMAIN tasks \ {t} : tasks'[u] = tasks[u]
       /\ Answered(t) => \A u \in DOMAIN tasks \ {t} : tasks'[u] = tasks[u]
  /\ Len(completed_sessions') > Len(completed_sessions) =>
       \E t \in DOMAIN tasks : Returns(t)

\* C27: the stats of a session change only in a step of that session, a
\* finished session changes nothing any more, an entry is appended to
\* completed_sessions only in the step in which its session returns and
\* is the stats that session ended with, and no entry already in the list
\* ever changes
C27_StatsHandedOver == [][C27_Frame]_vars

C27_Witness ==
  /\ Len(completed_sessions) = 2
  /\ completed_sessions[1].errors = 1
  /\ completed_sessions[2].success = 2
  /\ result # NoResult
  /\ tasks[result.session_id].pc = "think"
  /\ cpc = "gather"

\* C28: no operation of a session (creation, endpoint selection with its
\* placeholder filled in, think-time sampling, request) changes PROFILES
\* or PROFILE_DISTRIBUTION: the tables are at every moment what they were
\* at the start
C28_TablesUntouched ==
  /\ profiles = PROFILES
  /\ profile_distribution = PROFILE_DISTRIBUTION
  /\ http.stage # "idle" =>
       /\ http.session_duration \in Range(PROFILES[http.profile].session_duration)
       /\ http.total_pages \in Range(PROFILES[http.profile].pages_per_session)

C28_Witness ==
  /\ http.stage = "thought"
  /\ http.endpoint = Format(ProductTemplate, "item1000")
  /\ http.think_time = MaxThink
  /\ ProductTemplate \in profiles[http.profile].endpoints

\* C29: a GET for any endpoint a profile can select is served by a GET
\* route of the server: the answer is neither "method not allowed" nor
\* "not found"
C29_GetServed ==
  http.stage \in {"answered", "received"} =>
    /\ http.response.status # "405"
    /\ http.response.status # "404"

\* C30: the response a session gets from a tracked endpoint carries the
\* X-Server-ID header set by add_tracking_headers, and the session
\* records the server's id, not "unknown"
C30_ServerIdReturned ==
  (http.stage \in {"answered", "received"} /\ http.response.status = "200") =>
    /\ "X-Server-ID" \in DOMAIN http.response.headers
    /\ http.response.headers["X-Server-ID"] = SERVER_ID
    /\ http.stage = "received" => http.server_id = SERVER_ID

\* the sessions of the running stage that have returned
C31_OwnSessions ==
  { t \in DOMAIN tasks : tasks[t].pc = "done" }

C31_Step ==
  /\ Cardinality(Unfinished') <= stages[stage'].users
  /\ stage' # stage =>
       /\ stage' = stage + 1
       /\ Unfinished = {}
       /\ Len(summary) = stage
       /\ tasks' = << >>
       /\ completed_sessions' = << >>
       /\ session_id' = 0
  /\ DOMAIN tasks' # DOMAIN tasks /\ stage' = stage =>
       /\ Len(summary) = stage - 1
       /\ DOMAIN tasks' = 0..(session_id' - 1)
  /\ Len(summary') > Len(summary) =>
       /\ Len(summary') = stage
       /\ Last(summary').total_sessions = Cardinality(C31_OwnSessions)
       /\ Last(summary').total_requests =
            SumOf(completed_sessions, "requests")

\* C31: in the gradual ramp the stages run one after another: a stage
\* begins only when every session of the stage before has finished and
\* that stage's summary has been printed, with no task, no completed entry
\* and session id 0; the sessions running never exceed the current stage's
\* user count; a session is spawned only when every earlier stage has its
\* summary; and a stage's summary counts the sessions of that stage that
\* returned, and nothing else
C31_StagesInTurn == [][C31_Step]_vars

C31_Witness ==
  /\ stage = 2
  /\ cpc = "done"
  /\ Len(summary) = 2
  /\ summary[1].total_sessions = 1
  /\ summary[2].total_sessions = 2
  /\ session_id = 2

\* the requests for which add_tracking_headers has been called
Tracked == { r \in DOMAIN handlers : handlers[r].tracked }

RECURSIVE SumValues(_)
SumValues(d) ==
  IF DOMAIN d = {} THEN 0
  ELSE LET k == CHOOSE k \in DOMAIN d : TRUE
       IN d[k] + SumValues([e \in DOMAIN d \ {k} |-> d[e]])

\* C32: however the requests on the organic stress server interleave, no
\* count is lost: the counter's total is the sum of its per-endpoint
\* entries and the number of add_tracking_headers calls completed, and the
\* entry of every endpoint is the number of such calls made for it
C32_NoLostUpdate ==
  /\ request_counter.total = SumValues(request_counter.by_endpoint)
  /\ request_counter.total = Cardinality(Tracked)
  /\ \A e \in DOMAIN request_counter.by_endpoint :
       request_counter.by_endpoint[e] =
         Cardinality({ r \in Tracked : handlers[r].route = e })
  /\ \A r \in Tracked : handlers[r].route \in DOMAIN request_counter.by_endpoint

\* two requests for the same endpoint counted while the stream of the
\* first was still running
C32_Witness ==
  /\ Len(handlers) = 2
  /\ handlers[1].route = "extreme_all" /\ handlers[1].pc = "stream"
  /\ handlers[1].sent = 0 /\ handlers[1].total_bytes > 0
  /\ handlers[2].route = "extreme_all" /\ handlers[2].pc = "done"
  /\ request_counter.total = 2
  /\ request_counter.by_endpoint["extreme_all"] = 2

\* C34: the summary at the end of /extreme/all reports memory_allocated_mb
\* as 64 times the number of chunks the request allocated
C34_ReportsAllocation ==
  \A r \in DOMAIN handlers :
    handlers[r].route = "extreme_all" /\ handlers[r].pc = "done" =>
      handlers[r].summary.memory_allocated_mb = ChunkMb * handlers[r].allocated

\* the payload bytes a stream has yielded, and where its summaries stand
RECURSIVE PayloadBytes(_)
PayloadBytes(out) ==
  IF out = << >> THEN 0
  ELSE Head(out).len + PayloadBytes(Tail(out))

Summaries(out) == { i \in DOMAIN out : out[i].kind = "summary" }

C33_Shape ==
  stress.network /\ stress.pc \notin {"request", "invalid", "rejected"} =>
    /\ stress.chunk_bytes = Max(stress.network_chunk_kb, 1) * Kibi
    /\ \A i \in DOMAIN stress.out :
         stress.out[i].kind = "payload" =>
           stress.out[i].len \in 1..stress.chunk_bytes
    /\ PayloadBytes(stress.out) = stress.emitted
    /\ stress.emitted <= stress.network_mb * Kibi * Kibi
    /\ Summaries(stress.out) \subseteq {Len(stress.out)}
    /\ Summaries(stress.out) # {} =>
         /\ PayloadBytes(stress.out) = stress.network_mb * Kibi * Kibi
         /\ stress.cpu => stress.cpu_future = "done" /\ "cpu" \in Last(stress.out).stats
         /\ stress.memory =>
              stress.memory_future = "done" /\ "memory" \in Last(stress.out).stats
    /\ stress.pc = "done" <=> Summaries(stress.out) # {}

====
